---- MODULE Spec2Model ----
(***************************************************************************)
(* People Pleaser Polling: the poll store (src/src/lib/store.ts) and the   *)
(* handlers that call it.  A poll is a record kept either in Upstash Redis *)
(* (a JSON string per key, read and written whole) or in a process-wide    *)
(* Map (objects shared by reference and mutated in place).  addVote and    *)
(* endPoll are async functions: each suspends at `await getPoll(id)` and,  *)
(* on the Redis path, again at `await savePoll(poll)`, so calls interleave *)
(* at those points.                                                        *)
(*                                                                         *)
(* Numbers are fixed-point: the integer k stands for the number k / Scale. *)
(* Arithmetic is exact (IEEE-754 rounding error of the JavaScript doubles  *)
(* is not modelled).  Poll.title and Poll.createdAt play no part in any    *)
(* operation of the store and are left out of the record.                  *)
(***************************************************************************)
EXTENDS Integers, Sequences, FiniteSets, TLC

\* ------------------------------------------------------------------ bounds

\* Number of addVote / endPoll calls made in one behaviour.
MaxCalls == 2

\* Largest number of options of a poll whose ballots are validated.
MaxOptions == 3

\* Largest number of ballots of a poll that is tallied.
MaxVotes == 4

\* Largest number of ballots of a poll that is queried.
MaxQueryVotes == 1

\* ------------------------------------------------------- values and types

\* Denominator of the fixed-point representation of a JavaScript number.
Scale == 20

One == Scale

\* The four voting methods (types/poll.ts).
VotingMethods == {"slider", "ranked", "single", "veto"}

\* JavaScript null: the result of a failed lookup, and of endPoll's rejection.
Null == [null |-> TRUE]

\* Poll.winner while the poll is open.
NullWinner == "null"

\* Keys a poll can be stored under (nanoid results).
PollIds == {"p1"}

\* Option lists handed to createPoll.
OptionLists == {<<"A", "B">>}

\* Numbers a submitted ballot is made of: 0, 1 and 2.
InputValues == {0, One, 2 * One}

\* Lengths of the submitted ballots.
BallotLens == {1, 2}

\* Ballots submitted to addVote: well-formed and malformed ones.
BallotInputs == UNION {[1..k -> InputValues] : k \in BallotLens}

Range(s) == {s[i] : i \in 1..Len(s)}

IsPrefix(s, t) == Len(s) <= Len(t) /\ SubSeq(t, 1, Len(s)) = s

Calls == 1..MaxCalls

VARIABLES
  redis,   \* TRUE: polls live in Redis; FALSE: in the in-memory Map
  store,   \* poll id -> stored poll, or Null
  calls    \* call -> the state of that addVote / endPoll invocation

vars == <<redis, store, calls>>

\* ------------------------------------------------------------ createPoll

\* The Poll object createPoll builds.
NewPoll(id, options, hideScores, votingMethod) ==
  [id |-> id, options |-> options, votes |-> <<>>, ended |-> FALSE,
   winner |-> NullWinner, hideScores |-> hideScores,
   votingMethod |-> votingMethod]

\* nanoid(10): an id no stored poll has.
NanoId == CHOOSE id \in PollIds : store[id] = Null

CreatePoll(options, hideScores, votingMethod) ==
  /\ \E id \in PollIds : store[id] = Null
  /\ store' = [store EXCEPT ![NanoId] = NewPoll(NanoId, options, hideScores, votingMethod)]
  /\ UNCHANGED <<redis, calls>>

\* --------------------------------------------------------------- getPoll

\* Backward compatibility: a stored poll without votingMethod reads as slider.
DefaultMethod(poll) ==
  IF poll.votingMethod \in VotingMethods THEN poll
  ELSE [poll EXCEPT !.votingMethod = "slider"]

\* What `await getPoll(id)` hands to its caller.  Redis: a fresh object parsed
\* from the stored JSON.  In-memory: the stored object itself (a reference);
\* every poll createPoll stores has a votingMethod, so the default of line 62
\* never changes a stored object.
GetPoll(id) ==
  IF store[id] = Null THEN Null
  ELSE IF redis THEN DefaultMethod(store[id])
  ELSE [ref |-> id]

\* The poll object a suspended call holds, as it is when the call resumes.
Deref(c) ==
  IF calls[c].poll = Null THEN Null
  ELSE IF redis THEN calls[c].poll
  ELSE store[calls[c].poll.ref]

\* ---------------------------------------------------------- validateVote

\* [...values].sort((a, b) => a - b).every((v, i) => v === i + 1): the sorted
\* values are 1, 2, ..., values.length, that is, each of these ranks occurs
\* among the values.
IsRanking(values) ==
  \A i \in 1..Len(values) : \E j \in 1..Len(values) : values[j] = i * One

\* values.filter((v) => v === x).length
CountEq(values, x) == Cardinality({j \in 1..Len(values) : values[j] = x})

\* validateVote without its length check (line 76 dropped).
validateVoteNoLength(poll, values) ==
  LET n == Len(poll.options) IN
  CASE poll.votingMethod = "slider" ->
         \A j \in 1..Len(values) : values[j] >= -One /\ values[j] <= One
    [] poll.votingMethod = "ranked" -> IsRanking(values)
    [] poll.votingMethod \in {"single", "veto"} ->
         CountEq(values, One) = 1 /\ CountEq(values, 0) = n - 1
    [] OTHER -> FALSE

\* validateVote whose single / veto rule counts the ones and not the zeros.
validateVoteOnesOnly(poll, values) ==
  LET n == Len(poll.options) IN
  IF Len(values) # n THEN FALSE
  ELSE CASE poll.votingMethod = "slider" ->
              \A j \in 1..Len(values) : values[j] >= -One /\ values[j] <= One
         [] poll.votingMethod = "ranked" -> IsRanking(values)
         [] poll.votingMethod \in {"single", "veto"} -> CountEq(values, One) = 1
         [] OTHER -> FALSE

\* validateVote as it was before the other methods: the slider rule for all.
validateVoteSliderOnly(poll, values) ==
  /\ Len(values) = Len(poll.options)
  /\ \A j \in 1..Len(values) : values[j] >= -One /\ values[j] <= One

validateVote(poll, values) ==
  LET n == Len(poll.options) IN
  IF Len(values) # n THEN FALSE
  ELSE CASE poll.votingMethod = "slider" ->
              \A j \in 1..Len(values) : values[j] >= -One /\ values[j] <= One
         [] poll.votingMethod = "ranked" -> IsRanking(values)
         [] poll.votingMethod \in {"single", "veto"} ->
              CountEq(values, One) = 1 /\ CountEq(values, 0) = n - 1
         [] OTHER -> FALSE

\* ------------------------------------------------------------- getScores

\* A JavaScript number is an IEEE-754 double.  The doubles met here lie within
\* a few units in the last place of a fraction k / den, and are held as the
\* pair [k, d] that stands for k / den + d * 2^-57 / den.  For a ballot value
\* den is Scale; d = 0 says the double is the fraction itself.

\* 2^p modulo m, twelve doublings at a time (products stay below 2^31).
RECURSIVE Pow2Mod(_, _)
Pow2Mod(p, m) == IF p <= 12 THEN 2^p % m ELSE (2^12 * Pow2Mod(p - 12, m)) % m

\* The binary exponent e of the positive number a / den + d * 2^-57 / den:
\* 2^e <= it < 2^(e+1).
Binade(a, d, den) ==
  LET e == CHOOSE x \in -7..4 :
             2^(x + 7) * den <= a * 128 /\ a * 128 < 2^(x + 8) * den IN
  IF a * 128 = 2^(e + 7) * den /\ d < 0 THEN e - 1 ELSE e

\* Rounding of the exact result k / den + d * 2^-57 / den of an operation to
\* the nearest double, ties to the even significand: the d of that double.
\* Doubles of exponent e are 2^(e-52) apart, which is g of the units of d.
RoundToDouble(k, d, den) ==
  IF k = 0 THEN d
  ELSE LET s == IF k > 0 THEN 1 ELSE -1
           a == s * k
           dd == s * d
           e == Binade(a, dd, den)
           g == (den * 2^(e + 7)) \div 4
           r == (a * Pow2Mod(57, 2 * g) + dd) % (2 * g)
           lo == r % g
           rounded == IF lo = 0 THEN dd
                      ELSE IF 2 * lo < g \/ (2 * lo = g /\ r < g) THEN dd - lo
                      ELSE dd + (g - lo)
       IN s * rounded

\* The double a ballot value is: the one nearest to v / Scale.
ToDouble(v) == [k |-> v, d |-> RoundToDouble(v, 0, Scale)]

\* acc + x on doubles
DoubleAdd(acc, x) ==
  [k |-> acc.k + x.k, d |-> RoundToDouble(acc.k + x.k, acc.d + x.d, Scale)]

\* terms.reduce((acc, x) => acc + x, 0): the sum from the left, starting at 0.
RECURSIVE Reduce(_)
Reduce(terms) ==
  IF terms = <<>> THEN [k |-> 0, d |-> 0]
  ELSE DoubleAdd(Reduce(SubSeq(terms, 1, Len(terms) - 1)), ToDouble(terms[Len(terms)]))

\* poll.votes.reduce((acc, vote) => acc + vote[optIdx], 0)
SumVotes(votes, optIdx) == Reduce([v \in 1..Len(votes) |-> votes[v][optIdx]])

\* Math.round((sum / count) * 10) / 10, as a multiple of 1 / Scale.  The
\* quotient and the product are rounded to doubles; Math.round(y) is the
\* integer floor(y + 1/2); the last division yields the double of that many
\* tenths.  A sum within rounding error of 0 gives 0.
RoundTenth(sum, count) ==
  IF sum.k = 0 THEN 0
  ELSE LET den == Scale * count
           q == RoundToDouble(sum.k, sum.d, den)
           y == RoundToDouble(10 * sum.k, 10 * q, den)
           num == 2 * 10 * sum.k + den
           tenths == IF num % (2 * den) = 0 /\ y < 0
                     THEN (num \div (2 * den)) - 1
                     ELSE num \div (2 * den)
       IN tenths * (Scale \div 10)

\* Scores are multiples of 1 / Scale.  The sums of a single or veto poll are
\* sums of zeros and ones, which doubles hold exactly (d = 0).
getScores(poll) ==
  LET n == Len(poll.options)
      k == Len(poll.votes) IN
  IF k = 0 THEN [i \in 1..n |-> 0]
  ELSE CASE poll.votingMethod = "slider" ->
              [i \in 1..n |-> RoundTenth(SumVotes(poll.votes, i), k)]
         [] poll.votingMethod = "ranked" ->
              [i \in 1..n |->
                 RoundTenth(Reduce([v \in 1..k |-> n * One - poll.votes[v][i]]), k)]
         [] poll.votingMethod \in {"single", "veto"} ->
              [i \in 1..n |-> SumVotes(poll.votes, i).k]
         [] OTHER -> [i \in 1..n |-> 0]

\* ------------------------------------------------------ winner selection

\* Math.max(...scores) and Math.min(...scores)
MaxOf(scores) == LET all == Range(scores) IN CHOOSE m \in all : \A x \in all : x <= m
MinOf(scores) == LET all == Range(scores) IN CHOOSE m \in all : \A x \in all : x >= m

\* A selection without the random tie-break: the first option at the maximum.
findWinnerFirstMax(poll) ==
  LET scores == getScores(poll)
      maxScore == MaxOf(scores) IN
  {poll.options[CHOOSE i \in 1..Len(poll.options) :
                  /\ scores[i] = maxScore
                  /\ \A j \in 1..Len(poll.options) : scores[j] = maxScore => i <= j]}

\* The labels winners[Math.floor(Math.random() * winners.length)] can yield.
findWinnerSlider(poll) ==
  LET scores == getScores(poll)
      maxScore == MaxOf(scores) IN
  {poll.options[i] : i \in {j \in 1..Len(poll.options) : scores[j] = maxScore}}

\* A single-choice selection that takes any option that got a vote.
findWinnerAnyChosen(poll) ==
  LET scores == getScores(poll) IN
  {poll.options[i] : i \in {j \in 1..Len(poll.options) : scores[j] > 0}}

findWinnerSingle(poll) ==
  LET scores == getScores(poll)
      maxScore == MaxOf(scores) IN
  {poll.options[i] : i \in {j \in 1..Len(poll.options) : scores[j] = maxScore}}

\* A veto selection that takes the most vetoed option.
findWinnerMostVetoed(poll) ==
  LET scores == getScores(poll)
      maxScore == MaxOf(scores) IN
  {poll.options[i] : i \in {j \in 1..Len(poll.options) : scores[j] = maxScore}}

findWinnerVeto(poll) ==
  LET scores == getScores(poll)
      minScore == MinOf(scores) IN
  {poll.options[i] : i \in {j \in 1..Len(poll.options) : scores[j] = minScore}}

\* The inner loop without its test of eliminated: the option of lowest rank
\* on the ballot, eliminated or not.
BestIdxOfAll(vote, n, eliminated) ==
  CHOOSE i \in 1..n : \A j \in 1..n : vote[i] < vote[j] \/ (vote[i] = vote[j] /\ i <= j)

\* The index the inner loop of findWinnerRanked leaves in bestIdx: the
\* non-eliminated option of lowest rank on the ballot, the first such on equal
\* ranks; 0 when every option is eliminated (bestIdx = -1).
BestIdx(vote, n, eliminated) ==
  LET alive == {i \in 1..n : i \notin eliminated} IN
  IF alive = {} THEN 0
  ELSE CHOOSE i \in alive :
         \A j \in alive : vote[i] < vote[j] \/ (vote[i] = vote[j] /\ i <= j)

\* firstChoiceCounts of one round.
FirstChoiceCounts(poll, eliminated) ==
  LET n == Len(poll.options) IN
  [i \in 1..n |->
     Cardinality({v \in 1..Len(poll.votes) : BestIdx(poll.votes[v], n, eliminated) = i})]

\* The loop without its majority check: no round ends the count early.
NoMajority(poll, eliminated) == {}

\* Options that hold a majority in a round (the loop returns the first).
Majority(poll, eliminated) ==
  LET counts == FirstChoiceCounts(poll, eliminated) IN
  {i \in 1..Len(poll.options) :
     i \notin eliminated /\ 2 * counts[i] > Len(poll.votes)}

\* lastPlace without the test of eliminated: every option at the minimum count.
LastPlaceOfAll(poll, eliminated) ==
  LET counts == FirstChoiceCounts(poll, eliminated) IN
  {i \in 1..Len(poll.options) : \A j \in 1..Len(poll.options) : counts[i] <= counts[j]}

\* lastPlace cut down to its first entry: no random choice among ties.
LastPlaceLowestIndex(poll, eliminated) ==
  LET counts == FirstChoiceCounts(poll, eliminated)
      alive == {i \in 1..Len(poll.options) : i \notin eliminated}
      all == {i \in alive : \A j \in alive : counts[i] <= counts[j]} IN
  {i \in all : \A j \in all : i <= j}

\* lastPlace: the non-eliminated options tied at the minimum count.
LastPlace(poll, eliminated) ==
  LET counts == FirstChoiceCounts(poll, eliminated)
      alive == {i \in 1..Len(poll.options) : i \notin eliminated} IN
  {i \in alive : \A j \in alive : counts[i] <= counts[j]}

\* eliminated.add(lastPlace[random]): the eliminated sets the round can leave.
Eliminate(poll, eliminated) ==
  {eliminated \cup {e} : e \in LastPlace(poll, eliminated)}

\* The ways the rounds from `round` on can go, over every outcome of the
\* random eliminations: the index returned, the options eliminated by then,
\* the number of rounds run, and whether a majority ended the loop.
RECURSIVE RankedRuns(_, _, _)
RankedRuns(poll, eliminated, round) ==
  LET n == Len(poll.options)
      alive == {i \in 1..n : i \notin eliminated} IN
  IF round >= n - 1
  THEN {[winner |-> IF alive = {} THEN 1 ELSE CHOOSE i \in alive : \A j \in alive : i <= j,
         eliminated |-> eliminated, rounds |-> round, majority |-> FALSE]}
  ELSE IF Majority(poll, eliminated) # {}
  THEN {[winner |-> CHOOSE i \in Majority(poll, eliminated) :
                      \A j \in Majority(poll, eliminated) : i <= j,
         eliminated |-> eliminated, rounds |-> round + 1, majority |-> TRUE]}
  ELSE UNION {RankedRuns(poll, next, round + 1) : next \in Eliminate(poll, eliminated)}

\* The labels the rounds from `round` on can return.
RankedRounds(poll, eliminated, round) ==
  {poll.options[run.winner] : run \in RankedRuns(poll, eliminated, round)}

findWinnerRanked(poll) == RankedRounds(poll, {}, 0)

\* The winner selection without the case of a poll that has no votes.
WinnersByMethod(poll) ==
  CASE poll.votingMethod = "slider" -> findWinnerSlider(poll)
    [] poll.votingMethod = "ranked" -> findWinnerRanked(poll)
    [] poll.votingMethod = "single" -> findWinnerSingle(poll)
    [] poll.votingMethod = "veto" -> findWinnerVeto(poll)
    [] OTHER -> {poll.winner}

\* The values endPoll can assign to poll.winner.
Winners(poll) ==
  IF Len(poll.votes) = 0 THEN {poll.options[1]}
  ELSE CASE poll.votingMethod = "slider" -> findWinnerSlider(poll)
         [] poll.votingMethod = "ranked" -> findWinnerRanked(poll)
         [] poll.votingMethod = "single" -> findWinnerSingle(poll)
         [] poll.votingMethod = "veto" -> findWinnerVeto(poll)
         [] OTHER -> {poll.winner}

\* -------------------------------------------------------------- the calls

\* Results of addVote (a boolean), and a call that has not returned yet.
RetTrue == [bool |-> TRUE]
RetFalse == [bool |-> FALSE]
NoRet == [pending |-> TRUE]

IdleCall ==
  [op |-> "none", id |-> "none", values |-> <<>>, poll |-> Null,
   pc |-> "idle", ret |-> NoRet]

\* Calls are taken in order of their number.
NextCall(c) == calls[c].pc = "idle" /\ \A d \in Calls : d < c => calls[d].pc # "idle"

\* A call returns: its local poll object is dropped.
Return(c, ret) == [calls EXCEPT ![c].pc = "done", ![c].poll = Null, ![c].ret = ret]

\* savePoll on the Redis path: the stored JSON is replaced by the caller's
\* object, whole.  The caller then returns.  (In memory savePoll does nothing.)
SavePoll(c) ==
  /\ calls[c].pc = "save"
  /\ redis
  /\ store' = [store EXCEPT ![calls[c].poll.id] = calls[c].poll]
  /\ calls' = Return(c, IF calls[c].op = "addVote" THEN RetTrue ELSE calls[c].poll)
  /\ UNCHANGED redis

\* ---------------------------------------------------------------- addVote

\* addVote(id, values) up to its `await getPoll(id)`.
AddVoteCall(c, id, values) ==
  /\ NextCall(c)
  /\ calls' = [calls EXCEPT ![c] =
       [op |-> "addVote", id |-> id, values |-> values, poll |-> GetPoll(id),
        pc |-> "resume", ret |-> NoRet]]
  /\ UNCHANGED <<redis, store>>

\* addVote's first check without the test of poll.ended.
CanVoteNoEndedCheck(poll) == poll # Null

\* Whether addVote goes on to validate the ballot: the poll exists and is open.
CanVote(poll) == poll # Null /\ ~poll.ended

\* A push that drops the ballot.
PushedNothing(poll, values) == poll

\* poll.votes.push(values)
Pushed(poll, values) == [poll EXCEPT !.votes = Append(@, values)]

\* addVote from the return of getPoll on: the two checks, the push, and
\* memPolls.set (in memory) or the start of savePoll (Redis).
AddVoteResume(c) ==
  /\ calls[c].pc = "resume"
  /\ calls[c].op = "addVote"
  /\ LET poll == Deref(c) IN
     IF ~CanVote(poll)
     THEN calls' = Return(c, RetFalse) /\ UNCHANGED store
     ELSE IF ~validateVote(poll, calls[c].values)
     THEN calls' = Return(c, RetFalse) /\ UNCHANGED store
     ELSE IF redis
     THEN /\ calls' = [calls EXCEPT ![c].pc = "save",
                                    ![c].poll = Pushed(poll, calls[c].values)]
          /\ UNCHANGED store
     ELSE /\ store' = [store EXCEPT ![calls[c].id] = Pushed(poll, calls[c].values)]
          /\ calls' = Return(c, RetTrue)
  /\ UNCHANGED redis

\* ---------------------------------------------------------------- endPoll

\* endPoll(id) up to its `await getPoll(id)`.
EndPollCall(c, id) ==
  /\ NextCall(c)
  /\ calls' = [calls EXCEPT ![c] =
       [op |-> "endPoll", id |-> id, values |-> <<>>, poll |-> GetPoll(id),
        pc |-> "resume", ret |-> NoRet]]
  /\ UNCHANGED <<redis, store>>

\* The close that sets ended and leaves winner as it was.
ClosedNoWinner(poll, winner) == [poll EXCEPT !.ended = TRUE]

\* The close that names the first option, whatever was selected.
ClosedFirstOption(poll, winner) == [poll EXCEPT !.ended = TRUE, !.winner = poll.options[1]]

\* poll.ended = true; poll.winner = <the selected winner>
Closed(poll, winner) == [poll EXCEPT !.ended = TRUE, !.winner = winner]

\* endPoll's check without the test of poll.ended.
CanEndNoEndedCheck(poll) == poll # Null

\* Whether endPoll goes on to close the poll it read.
CanEnd(poll) == poll # Null /\ ~poll.ended

\* endPoll from the return of getPoll on: the check, the close with one of
\* the possible winners, and memPolls.set or the start of savePoll.
EndPollResume(c) ==
  /\ calls[c].pc = "resume"
  /\ calls[c].op = "endPoll"
  /\ LET poll == Deref(c) IN
     IF ~CanEnd(poll)
     THEN calls' = Return(c, Null) /\ UNCHANGED store
     ELSE \E winner \in Winners(poll) :
            IF redis
            THEN /\ calls' = [calls EXCEPT ![c].pc = "save",
                                           ![c].poll = Closed(poll, winner)]
                 /\ UNCHANGED store
            ELSE /\ store' = [store EXCEPT ![calls[c].id] = Closed(poll, winner)]
                 /\ calls' = Return(c, Closed(poll, winner))
  /\ UNCHANGED redis

\* POST /api/poll/[id]/end: the response to a finished endPoll.
EndRoutePOST(ret) ==
  IF ret = Null THEN [status |-> 400, error |-> "Poll not found or already ended"]
  ELSE [status |-> 200, winner |-> ret.winner]

\* ---------------------------------------------------------- specification

\* A fresh process: no poll stored, no call made; storage is Redis or the Map.
Init ==
  /\ redis \in BOOLEAN
  /\ store = [id \in PollIds |-> Null]
  /\ calls = [c \in Calls |-> IdleCall]

Next ==
  \/ \E options \in OptionLists, hideScores \in BOOLEAN, votingMethod \in VotingMethods :
       CreatePoll(options, hideScores, votingMethod)
  \/ \E c \in Calls, id \in PollIds, values \in BallotInputs : AddVoteCall(c, id, values)
  \/ \E c \in Calls : AddVoteResume(c)
  \/ \E c \in Calls, id \in PollIds : EndPollCall(c, id)
  \/ \E c \in Calls : EndPollResume(c)
  \/ \E c \in Calls : SavePoll(c)

Spec == Init /\ [][Next]_vars

\* ----------------------------------------------- POST /api/poll/[id]/vote

\* Request bodies: {values: <array of numbers>}, and a body with no values.
VoteBodies == {[values |-> v] : v \in BallotInputs} \cup {[title |-> "no values"]}

\* Array.isArray(values)
IsArray(body) == "values" \in DOMAIN body

\* values.every((v) => typeof v === "number" && v >= -1 && v <= 1)
InSliderRange(values) ==
  \A j \in 1..Len(values) : values[j] >= -One /\ values[j] <= One

\* !ok is false for every object, so for the Promise addVote returns,
\* resolved or not; it is true only of the boolean false.
Truthy(ok) == ok # RetFalse

\* The route's answers.
VoteOk == [status |-> 200, ok |-> TRUE]
VoteError(error) == [status |-> 400, error |-> error]

\* A request the route answers without calling addVote.
NotForwarded(id, values, resp) ==
  [op |-> "vote", id |-> id, values |-> values, poll |-> Null,
   pc |-> "done", ret |-> NoRet, resp |-> resp]

\* The handler, whole: it runs without suspending after the body is read.
\* `ok` is what addVote(params.id, values) returns to a caller that does not
\* await it: the pending Promise of the call, which goes on by itself.
VoteRoutePOST(c, id, body) ==
  /\ NextCall(c)
  /\ IF ~IsArray(body)
     THEN calls' = [calls EXCEPT ![c] =
            NotForwarded(id, <<>>, VoteError("values must be an array"))]
     ELSE IF ~InSliderRange(body.values)
     THEN calls' = [calls EXCEPT ![c] =
            NotForwarded(id, body.values,
                         VoteError("Each value must be a number between -1 and 1"))]
     ELSE LET ok == NoRet IN
          calls' = [calls EXCEPT ![c] =
            [op |-> "addVote", id |-> id, values |-> body.values,
             poll |-> GetPoll(id), pc |-> "resume", ret |-> ok,
             resp |-> IF ~Truthy(ok)
                      THEN VoteError("Poll not found, ended, or wrong number of values")
                      ELSE VoteOk]]
  /\ UNCHANGED <<redis, store>>

\* The store behind its three routes: ballots arrive through the vote route.
NextRoute ==
  \/ \E options \in OptionLists, hideScores \in BOOLEAN, votingMethod \in VotingMethods :
       CreatePoll(options, hideScores, votingMethod)
  \/ \E c \in Calls, id \in PollIds, body \in VoteBodies : VoteRoutePOST(c, id, body)
  \/ \E c \in Calls : AddVoteResume(c)
  \/ \E c \in Calls, id \in PollIds : EndPollCall(c, id)
  \/ \E c \in Calls : EndPollResume(c)
  \/ \E c \in Calls : SavePoll(c)

SpecRoute == Init /\ [][NextRoute]_vars

\* ------------------------------------------- validation of single ballots

\* Option labels; a poll with n options has the first n.
AllLabels == <<"A", "B", "C", "D", "E", "F">>
Options(n) == SubSeq(AllLabels, 1, n)

\* Numbers a probed ballot is made of: -1.05, -1, 0, 0.5, 1, 1.05, 2 and 3.
ProbeValues == {-One - 1, -One, 0, One \div 2, One, One + 1, 2 * One, 3 * One}

\* Probed ballots: every length from 1 to one more than the most options.
ProbeBallots == UNION {[1..k -> ProbeValues] : k \in 1..(MaxOptions + 1)}

\* An open poll without ballots, of any method and size, and one addVote call
\* that has read it and is about to validate its ballot.
InitValidate ==
  /\ redis \in BOOLEAN
  /\ \E n \in 2..MaxOptions, votingMethod \in VotingMethods :
       store = [id \in PollIds |-> NewPoll(id, Options(n), FALSE, votingMethod)]
  /\ \E id \in PollIds, values \in ProbeBallots :
       calls = [c \in Calls |->
                  IF c = 1
                  THEN [op |-> "addVote", id |-> id, values |-> values,
                        poll |-> GetPoll(id), pc |-> "resume", ret |-> NoRet]
                  ELSE IdleCall]

NextValidate ==
  \/ \E c \in Calls : AddVoteResume(c)
  \/ \E c \in Calls : SavePoll(c)

SpecValidate == InitValidate /\ [][NextValidate]_vars

\* ------------------------------------------------------ tally of a poll

\* Option lists of the polls that are tallied.
TallyOptionLists == {Options(2), Options(3)}

\* Slider ballots of the tallied polls, in twentieths: -1, -0.7, -0.4, -0.25,
\* -0.2, 0.05, 0.1 and 0.9 on two options, and three ballots on three options.
SliderBallots ==
  {<<-20, -8>>, <<-14, -8>>, <<18, -8>>, <<-5, -4>>, <<1, 2>>,
   <<-20, 18, 0>>, <<18, 18, -14>>, <<-5, 1, 2>>}

\* The ballots a tallied poll can hold: they passed validateVote.
BallotsOf(poll) ==
  LET n == Len(poll.options)
      candidates == IF poll.votingMethod = "slider" THEN SliderBallots
                    ELSE [1..n -> {r * One : r \in 0..n}] IN
  {values \in candidates : validateVote(poll, values)}

\* The votes lists of a tallied poll.
VoteLists(poll) == UNION {[1..k -> BallotsOf(poll)] : k \in 0..MaxVotes}

\* Rankings of three options (A>B>C, B>A>C, C>A>B, C>B>A), and the longer
\* votes lists made of them: enough ballots for a count of two rounds in
\* which no two options are tied.  The lists hold the rankings in the order
\* written here; the shorter lists of VoteLists come in every order.
RunoffBallots ==
  <<<<One, 2 * One, 3 * One>>, <<2 * One, One, 3 * One>>,
    <<2 * One, 3 * One, One>>, <<3 * One, 2 * One, One>>>>

RunoffVoteLists(poll) ==
  IF poll.votingMethod = "ranked" /\ Len(poll.options) = 3
  THEN {[v \in 1..(MaxVotes + 1) |-> RunoffBallots[pick[v]]] :
          pick \in {p \in [1..(MaxVotes + 1) -> 1..Len(RunoffBallots)] :
                      \A v \in 1..MaxVotes : p[v] <= p[v + 1]}}
  ELSE {}

\* An open poll of any method with up to MaxVotes accepted ballots (one more
\* for the runoff lists), and one endPoll call that has read it.
InitTally ==
  /\ redis \in BOOLEAN
  /\ \E options \in TallyOptionLists, votingMethod \in VotingMethods :
       LET poll == NewPoll(CHOOSE id \in PollIds : TRUE, options, FALSE, votingMethod) IN
       \E votes \in VoteLists(poll) \cup RunoffVoteLists(poll) :
         store = [id \in PollIds |-> [poll EXCEPT !.votes = votes]]
  /\ \E id \in PollIds :
       calls = [c \in Calls |->
                  IF c = 1
                  THEN [op |-> "endPoll", id |-> id, values |-> <<>>,
                        poll |-> GetPoll(id), pc |-> "resume", ret |-> NoRet]
                  ELSE IdleCall]

NextTally ==
  \/ \E c \in Calls : EndPollResume(c)
  \/ \E c \in Calls : SavePoll(c)

SpecTally == InitTally /\ [][NextTally]_vars

\* ------------------------------------------------------ GET /api/poll/[id]

\* The scores without the test of hideScores.
ScoresWhenEnded(poll) == IF poll.ended THEN getScores(poll) ELSE Null

\* poll.ended && !poll.hideScores ? getScores(poll) : null
ScoresOrNull(poll) == IF poll.ended /\ ~poll.hideScores THEN getScores(poll) ELSE Null

\* The body of the 200 response (the title is not modelled).
PollResponse(poll) ==
  [status |-> 200, options |-> poll.options, voteCount |-> Len(poll.votes),
   ended |-> poll.ended, winner |-> poll.winner, hideScores |-> poll.hideScores,
   votingMethod |-> poll.votingMethod, scores |-> ScoresOrNull(poll)]

PollNotFound == [status |-> 404, error |-> "Poll not found"]

\* GET up to its `await getPoll(params.id)`.
PollGETCall(c, id) ==
  /\ NextCall(c)
  /\ calls' = [calls EXCEPT ![c] =
       [op |-> "get", id |-> id, values |-> <<>>, poll |-> GetPoll(id),
        pc |-> "resume", ret |-> NoRet]]
  /\ UNCHANGED <<redis, store>>

\* A GET that answered and left the store as it was, but for the votes of
\* the polls, which it emptied.
PollGETResumeClearing(c) ==
  /\ calls[c].pc = "resume"
  /\ calls[c].op = "get"
  /\ LET poll == Deref(c) IN
     calls' = [calls EXCEPT ![c] =
       [op |-> "get", id |-> calls[c].id, values |-> <<>>, poll |-> Null,
        pc |-> "done", ret |-> NoRet,
        resp |-> IF poll = Null THEN PollNotFound ELSE PollResponse(poll)]]
  /\ store' = [id \in PollIds |->
                 IF store[id] = Null THEN Null ELSE [store[id] EXCEPT !.votes = <<>>]]
  /\ UNCHANGED redis

\* GET from the return of getPoll on: the response.  Nothing is stored.
PollGETResume(c) ==
  /\ calls[c].pc = "resume"
  /\ calls[c].op = "get"
  /\ LET poll == Deref(c) IN
     calls' = [calls EXCEPT ![c] =
       [op |-> "get", id |-> calls[c].id, values |-> <<>>, poll |-> Null,
        pc |-> "done", ret |-> NoRet,
        resp |-> IF poll = Null THEN PollNotFound ELSE PollResponse(poll)]]
  /\ UNCHANGED <<redis, store>>

\* The votes lists of a queried poll.
QueryVoteLists(poll) == UNION {[1..k -> BallotsOf(poll)] : k \in 0..MaxQueryVotes}

\* No poll, or a poll of any method, with scores hidden or not, that holds
\* up to MaxQueryVotes accepted ballots and is open or was ended by endPoll;
\* no call made.
InitQuery ==
  /\ redis \in BOOLEAN
  /\ \/ store = [id \in PollIds |-> Null]
     \/ \E options \in TallyOptionLists, hideScores \in BOOLEAN,
           votingMethod \in VotingMethods :
          LET poll == NewPoll(CHOOSE id \in PollIds : TRUE, options, hideScores,
                              votingMethod) IN
          \E votes \in QueryVoteLists(poll) :
            LET open == [poll EXCEPT !.votes = votes] IN
            \/ store = [id \in PollIds |-> open]
            \/ \E winner \in Winners(open) :
                 store = [id \in PollIds |-> Closed(open, winner)]
  /\ calls = [c \in Calls |-> IdleCall]

NextQuery ==
  \/ \E c \in Calls, id \in PollIds : PollGETCall(c, id)
  \/ \E c \in Calls : PollGETResume(c)
  \/ \E c \in Calls, id \in PollIds : EndPollCall(c, id)
  \/ \E c \in Calls : EndPollResume(c)
  \/ \E c \in Calls : SavePoll(c)

SpecQuery == InitQuery /\ [][NextQuery]_vars

\* ----------------------------------------------------------- POST /api/poll

VALID_METHODS == {"slider", "ranked", "single", "veto"}

\* Option arrays of a create request: too short, with blank entries, with
\* entries to trim.
CreateOptionInputs ==
  {<<"A">>, <<"A", " ">>, <<"A", "B">>, <<" A", "B ">>, <<"A", " ", "B">>, <<"A", "B", "C">>}

\* Request bodies: with an options array, a hideScores flag and a method name
\* that is valid or not; and a body with no options array.
CreateBodies ==
  [options : CreateOptionInputs, hideScores : BOOLEAN,
   votingMethod : VALID_METHODS \cup {"approval"}]
    \cup {[title |-> "no options"]}

\* String(o).trim() on the strings of CreateOptionInputs
Trim(o) ==
  CASE o = " " -> ""
    [] o = " A" -> "A"
    [] o = "B " -> "B"
    [] OTHER -> o

\* options.map((o) => String(o).trim()).filter((o) => o.length > 0)
RECURSIVE Cleaned(_)
Cleaned(options) ==
  IF options = <<>> THEN <<>>
  ELSE IF Trim(Head(options)) = "" THEN Cleaned(Tail(options))
  ELSE <<Trim(Head(options))>> \o Cleaned(Tail(options))

\* VALID_METHODS.includes(votingMethod) ? votingMethod : "slider"
MethodOf(votingMethod) ==
  IF votingMethod \in VALID_METHODS THEN votingMethod ELSE "slider"

CreateError(error) == [status |-> 400, error |-> error]

\* A create request that was answered: the call record of it.
Created(body, id, resp) ==
  [op |-> "create", id |-> id, values |-> <<>>, poll |-> Null, pc |-> "done",
   ret |-> NoRet, body |-> body, resp |-> resp]

\* POST /api/poll: the two checks of the options, the choice of the method,
\* and createPoll (the title is not modelled).
CreateRoutePOST(c, body) ==
  /\ NextCall(c)
  /\ IF "options" \notin DOMAIN body \/ Len(body.options) < 2
     THEN /\ calls' = [calls EXCEPT ![c] =
                         Created(body, "none", CreateError("At least 2 options required"))]
          /\ UNCHANGED store
     ELSE IF Len(Cleaned(body.options)) < 2
     THEN /\ calls' = [calls EXCEPT ![c] =
                         Created(body, "none",
                                 CreateError("At least 2 non-empty options required"))]
          /\ UNCHANGED store
     ELSE /\ \E id \in PollIds : store[id] = Null
          /\ store' = [store EXCEPT ![NanoId] =
                         NewPoll(NanoId, Cleaned(body.options), body.hideScores,
                                 MethodOf(body.votingMethod))]
          /\ calls' = [calls EXCEPT ![c] =
                         Created(body, NanoId, [status |-> 200, id |-> NanoId])]
  /\ UNCHANGED redis

NextCreate == \E c \in Calls, body \in CreateBodies : CreateRoutePOST(c, body)

SpecCreate == Init /\ [][NextCreate]_vars

\* ------------------------------------------- calls on a poll with ballots

\* Ballots submitted to a poll of two options: one-hot ones (valid for
\* slider, single and veto), rankings, and one of the wrong length.
VotingInputs ==
  {<<One, 0>>, <<0, One>>, <<One, 2 * One>>, <<2 * One, One>>, <<0>>}

\* An open poll of two options, of any method, that holds up to
\* MaxQueryVotes accepted ballots; no call made.
InitVoting ==
  /\ redis \in BOOLEAN
  /\ \E options \in OptionLists, votingMethod \in VotingMethods :
       LET poll == NewPoll(CHOOSE id \in PollIds : TRUE, options, FALSE, votingMethod) IN
       \E votes \in QueryVoteLists(poll) :
         store = [id \in PollIds |-> [poll EXCEPT !.votes = votes]]
  /\ calls = [c \in Calls |-> IdleCall]

\* addVote and endPoll calls, interleaved at their awaits.
NextVoting ==
  \/ \E c \in Calls, id \in PollIds, values \in VotingInputs : AddVoteCall(c, id, values)
  \/ \E c \in Calls : AddVoteResume(c)
  \/ \E c \in Calls, id \in PollIds : EndPollCall(c, id)
  \/ \E c \in Calls : EndPollResume(c)
  \/ \E c \in Calls : SavePoll(c)

SpecVoting == InitVoting /\ [][NextVoting]_vars

\* ================================================================ claims

\* The step a behaviour takes is a step of call c.
StepOf(c) == calls'[c].pc # calls[c].pc

\* The poll stored under id is ended.
StoredEnded(id) == store[id] # Null /\ store[id].ended

\* endPoll calls on poll id that are past the ended check: they ran winner
\* selection and return (or have returned) the closed poll.
EndPollPassed(id) ==
  {c \in Calls : /\ calls[c].op = "endPoll" /\ calls[c].id = id
                 /\ \/ calls[c].pc = "save"
                    \/ calls[c].pc = "done" /\ calls[c].ret # Null}

\* The per-method rule table for a ballot of a poll with n options.
ValidBallot(method, n, values) ==
  /\ Len(values) = n
  /\ CASE method = "slider" -> \A j \in 1..n : -One <= values[j] /\ values[j] <= One
       [] method = "ranked" ->
            \E perm \in [1..n -> 1..n] :
              /\ \A i, j \in 1..n : perm[i] = perm[j] => i = j
              /\ \A j \in 1..n : values[j] = perm[j] * One
       [] method \in {"single", "veto"} ->
            \E hot \in 1..n :
              \A j \in 1..n : values[j] = (IF j = hot THEN One ELSE 0)
       [] OTHER -> FALSE

\* C1: of the endPoll calls on one poll, at most one gets past the ended
\* check: at most one returns the closed poll, all others return null, and
\* winner selection runs at most once per poll.
C1_OneEndPollSucceeds ==
  \A id \in PollIds : Cardinality(EndPollPassed(id)) <= 1

\* C2: the stored ended flag is monotonic: once a stored poll has
\* ended = true, no step stores it with ended = false.
C2_EndedMonotonic ==
  [][\A id \in PollIds : StoredEnded(id) => (store'[id] # Null /\ store'[id].ended)]_vars

\* C3: once the stored poll is ended, no step changes its stored votes or
\* its stored winner.
C3_EndedIsTerminal ==
  [][\A id \in PollIds :
       StoredEnded(id) => /\ store'[id] # Null
                          /\ store'[id].votes = store[id].votes
                          /\ store'[id].winner = store[id].winner]_vars

\* C4: every ballot for which addVote returned true is an element of the
\* stored votes list of its poll.
C4_AcceptedBallotStored ==
  \A c \in Calls :
    (calls[c].op = "addVote" /\ calls[c].ret = RetTrue)
      => calls[c].values \in Range(store[calls[c].id].votes)

\* C5: the stored votes list is append-only: every step leaves it equal or
\* extends it at the end.
C5_VotesAppendOnly ==
  [][\A id \in PollIds :
       store[id] # Null => /\ store'[id] # Null
                           /\ IsPrefix(store[id].votes, store'[id].votes)]_vars

\* C6: in every stored poll, winner is non-null exactly when ended is true,
\* and a non-null winner is one of the poll's option labels.
C6_WinnerIffEnded ==
  \A id \in PollIds :
    store[id] # Null =>
      /\ (store[id].winner # NullWinner) <=> store[id].ended
      /\ store[id].winner # NullWinner => store[id].winner \in Range(store[id].options)

\* C6 witness: a stored poll with ballots that is ended and has a winner.
C6_Witness ==
  \E id \in PollIds :
    /\ StoredEnded(id)
    /\ store[id].winner # NullWinner
    /\ Len(store[id].votes) > 0

\* C7: every ballot in a stored votes list has options.length entries and
\* satisfies the rule of the poll's voting method.
C7_StoredBallotsValid ==
  \A id \in PollIds :
    store[id] # Null =>
      \A v \in 1..Len(store[id].votes) :
        ValidBallot(store[id].votingMethod, Len(store[id].options), store[id].votes[v])

\* C7 witness: an ended poll holding a ballot (an addVote and an endPoll ran).
C7_Witness ==
  \E id \in PollIds : StoredEnded(id) /\ Len(store[id].votes) >= 1

\* C8: an endPoll that finds its poll ended returns null, which the end
\* route answers with status 400, and changes no stored poll; in memory a
\* poll found ended at the call is still ended when the call resumes.
C8_EndPollOnEndedRejected ==
  [][\A c \in Calls :
       (/\ calls[c].op = "endPoll" /\ calls[c].pc = "resume"
        /\ Deref(c) # Null /\ Deref(c).ended)
         => /\ StepOf(c) => /\ calls'[c].pc = "done"
                            /\ calls'[c].ret = Null
                            /\ EndRoutePOST(calls'[c].ret).status = 400
                            /\ store' = store
            /\ (~StepOf(c) /\ ~redis) => store'[calls[c].id].ended]_vars

\* C8 witness: the first call closed the poll, and a second endPoll on the
\* same poll has returned null.
C8_Witness ==
  /\ calls[1].op = "endPoll" /\ calls[1].pc = "done" /\ calls[1].ret # Null
  /\ calls[2].op = "endPoll" /\ calls[2].pc = "done" /\ calls[2].ret = Null
  /\ calls[2].id = calls[1].id
  /\ StoredEnded(calls[1].id)

\* C9: an addVote that finds no poll, or finds its poll ended, returns false
\* and changes no stored poll.
C9_AddVoteOnMissingOrEndedRejected ==
  [][\A c \in Calls :
       (/\ calls[c].op = "addVote" /\ calls[c].pc = "resume"
        /\ (Deref(c) = Null \/ Deref(c).ended)
        /\ StepOf(c))
         => /\ calls'[c].pc = "done"
            /\ calls'[c].ret = RetFalse
            /\ store' = store]_vars

\* C9 witness: the first call closed the poll, and an addVote of a ballot
\* valid for that poll, made after it, has returned false.
C9_Witness ==
  /\ calls[1].op = "endPoll" /\ calls[1].pc = "done" /\ calls[1].ret # Null
  /\ calls[2].op = "addVote" /\ calls[2].pc = "done" /\ calls[2].ret = RetFalse
  /\ calls[2].id = calls[1].id
  /\ ValidBallot(calls[1].ret.votingMethod, Len(calls[1].ret.options), calls[2].values)
  /\ StoredEnded(calls[1].id)

\* C10: an addVote that finds its poll open and whose ballot breaks the rule
\* of the poll's method returns false and changes no stored poll; and any
\* step leaves in a stored votes list only ballots that were there before or
\* the whole ballot of a call.
C10_InvalidBallotRejected ==
  [][/\ \A c \in Calls :
          (/\ calls[c].op = "addVote" /\ calls[c].pc = "resume"
           /\ Deref(c) # Null /\ ~Deref(c).ended
           /\ ~ValidBallot(Deref(c).votingMethod, Len(Deref(c).options), calls[c].values)
           /\ StepOf(c))
            => /\ calls'[c].pc = "done"
               /\ calls'[c].ret = RetFalse
               /\ store' = store
     /\ \A id \in PollIds :
          (store[id] # Null /\ store'[id] # Null) =>
            Range(store'[id].votes) \subseteq
              Range(store[id].votes) \cup {calls[c].values : c \in Calls}]_vars

\* C10 witness: both calls are addVote on the same open poll; the first was
\* accepted, the second, a ballot that breaks the method's rule, was rejected.
C10_Witness ==
  /\ calls[1].op = "addVote" /\ calls[1].pc = "done" /\ calls[1].ret = RetTrue
  /\ calls[2].op = "addVote" /\ calls[2].pc = "done" /\ calls[2].ret = RetFalse
  /\ calls[2].id = calls[1].id
  /\ store[calls[1].id] # Null /\ ~store[calls[1].id].ended
  /\ ~ValidBallot(store[calls[1].id].votingMethod, Len(store[calls[1].id].options),
                  calls[2].values)
  /\ store[calls[1].id].votes = <<calls[1].values>>

\* ------------------------------------------------- claims: the vote route

\* Call c is a request to the vote route.
ViaRoute(c) == "resp" \in DOMAIN calls[c]

\* addVote call c was turned down because its poll was missing or ended: it
\* returned false although its ballot satisfies the rule of the stored poll.
RejectedAsStale(c) ==
  /\ calls[c].op = "addVote" /\ calls[c].pc = "done" /\ calls[c].ret = RetFalse
  /\ store[calls[c].id] # Null
  /\ ValidBallot(store[calls[c].id].votingMethod, Len(store[calls[c].id].options),
                 calls[c].values)

\* addVote call d is about to turn down a malformed ballot: it read an open
\* poll whose rule the ballot breaks.
AboutToRejectMalformed(d) ==
  /\ calls[d].op = "addVote" /\ calls[d].pc = "resume"
  /\ Deref(d) # Null /\ ~Deref(d).ended
  /\ ~ValidBallot(Deref(d).votingMethod, Len(Deref(d).options), calls[d].values)

\* C11: whenever a request to the vote route ends without its ballot being
\* appended (addVote was not called, or resolved to false), the response is
\* the 400 error; {ok: true} is answered only if addVote resolved to true.
C11_RejectionReported ==
  \A c \in Calls :
    (ViaRoute(c) /\ calls[c].pc = "done" /\ calls[c].ret # RetTrue)
      => calls[c].resp.status = 400

\* C12: a ballot valid under the rule of the poll's method, posted to the
\* vote route for an existing open poll, is handed to addVote and answered
\* with {ok: true}, for each of the four methods.
C12_ValidBallotAccepted ==
  [][\A c \in Calls :
       (/\ NextCall(c) /\ StepOf(c) /\ "resp" \in DOMAIN calls'[c]
        /\ store[calls'[c].id] # Null /\ ~store[calls'[c].id].ended
        /\ ValidBallot(store[calls'[c].id].votingMethod,
                       Len(store[calls'[c].id].options), calls'[c].values))
         => calls'[c].op = "addVote" /\ calls'[c].resp = VoteOk]_vars

C14_ValidateVoteMatchesRules ==
  \A c \in Calls :
    calls[c].op = "addVote" =>
      LET p == store[calls[c].id]
          valid == ValidBallot(p.votingMethod, Len(p.options), calls[c].values) IN
      /\ calls[c].pc = "save" => valid
      /\ calls[c].pc = "done" => (calls[c].ret = RetTrue <=> valid)
      /\ calls[c].pc = "done" => calls[c].ret \in {RetTrue, RetFalse}
      /\ p.votes = (IF calls[c].pc = "done" /\ valid THEN <<calls[c].values>> ELSE <<>>)
      /\ ~p.ended /\ p.winner = NullWinner

\* C14 witness: a ranked ballot over three options was accepted.
C14_Witness ==
  \E c \in Calls :
    /\ calls[c].op = "addVote" /\ calls[c].pc = "done" /\ calls[c].ret = RetTrue
    /\ store[calls[c].id].votingMethod = "ranked"
    /\ Len(store[calls[c].id].options) = 3
    /\ store[calls[c].id].votes = <<calls[c].values>>

\* ------------------------------------------------- claims: winner selection

\* The step is endPoll call c closing the open poll it read.
EndPollCloses(c) ==
  /\ calls[c].op = "endPoll" /\ calls[c].pc = "resume"
  /\ StepOf(c)
  /\ CanEnd(Deref(c))

\* endPoll call c has read an open poll and is about to close it.
AboutToClose(c) ==
  /\ calls[c].op = "endPoll" /\ calls[c].pc = "resume"
  /\ CanEnd(Deref(c))

\* The poll as the step of call c closed it.
ClosedBy(c) == IF redis THEN calls'[c].poll ELSE store'[calls[c].id]

\* endPoll sets as winner any one element of Winners(poll): the winners it
\* can set for the poll it is about to close are Winners(Deref(c)).

\* The polls endPoll has closed: stored, or held by a call that is to save.
ClosedPolls ==
  {store[id] : id \in {x \in PollIds : StoredEnded(x)}}
    \cup {calls[c].poll : c \in {x \in Calls : calls[x].op = "endPoll" /\ calls[x].pc = "save"}}

\* The options at the highest and at the lowest of the scores.
Top(scores) == {i \in DOMAIN scores : \A j \in DOMAIN scores : scores[j] <= scores[i]}
Bottom(scores) == {i \in DOMAIN scores : \A j \in DOMAIN scores : scores[i] <= scores[j]}

\* The veto count of option i: the ballots of the poll that mark it.
Vetoes(poll, i) == Cardinality({v \in 1..Len(poll.votes) : poll.votes[v][i] = One})

\* C15: for every voting method, endPoll on an open poll with zero ballots
\* ends the poll with winner options[0], the first declared option.
C15_NoBallotsFirstOption ==
  [][\A c \in Calls :
       (EndPollCloses(c) /\ Deref(c).votes = <<>>) =>
         /\ ClosedBy(c).ended
         /\ ClosedBy(c).winner = Deref(c).options[1]]_vars

\* C15 witness: a veto poll of three options was ended without a ballot.
C15_Witness ==
  \E id \in PollIds :
    /\ StoredEnded(id)
    /\ store[id].votes = <<>>
    /\ store[id].votingMethod = "veto"
    /\ Len(store[id].options) = 3
    /\ store[id].winner = store[id].options[1]

\* C16: endPoll on a slider or single poll with at least one ballot sets as
\* winner an option whose getScores score is the maximum over the options,
\* and each option at the maximum is a winner endPoll can set.
C16_MaxScoreWins ==
  /\ \A poll \in ClosedPolls :
       (poll.votingMethod \in {"slider", "single"} /\ poll.votes # <<>>) =>
         \E i \in Top(getScores(poll)) : poll.winner = poll.options[i]
  /\ \A c \in Calls :
       (/\ AboutToClose(c)
        /\ Deref(c).votingMethod \in {"slider", "single"}
        /\ Deref(c).votes # <<>>) =>
         \A i \in Top(getScores(Deref(c))) : Deref(c).options[i] \in Winners(Deref(c))

\* C16 witness: a slider poll with ballots was ended on a tie at the maximum,
\* and the second option won.
C16_Witness ==
  \E id \in PollIds :
    /\ StoredEnded(id)
    /\ store[id].votingMethod = "slider"
    /\ Len(store[id].votes) > 1
    /\ Cardinality(Top(getScores(store[id]))) > 1
    /\ store[id].winner = store[id].options[2]

\* C17: endPoll on a veto poll with at least one ballot sets as winner an
\* option whose veto count is the minimum over the options, and each option
\* at the minimum is a winner endPoll can set.
C17_FewestVetoesWins ==
  /\ \A poll \in ClosedPolls :
       (poll.votingMethod = "veto" /\ poll.votes # <<>>) =>
         \E i \in 1..Len(poll.options) :
           /\ poll.winner = poll.options[i]
           /\ \A j \in 1..Len(poll.options) : Vetoes(poll, i) <= Vetoes(poll, j)
  /\ \A c \in Calls :
       (/\ AboutToClose(c)
        /\ Deref(c).votingMethod = "veto"
        /\ Deref(c).votes # <<>>) =>
         \A i \in 1..Len(Deref(c).options) :
           (\A j \in 1..Len(Deref(c).options) : Vetoes(Deref(c), i) <= Vetoes(Deref(c), j)) =>
             Deref(c).options[i] \in Winners(Deref(c))

\* C17 witness: a veto poll was ended in which the first option was vetoed
\* and the winner was not.
C17_Witness ==
  \E id \in PollIds :
    /\ StoredEnded(id)
    /\ store[id].votingMethod = "veto"
    /\ Len(store[id].votes) > 1
    /\ getScores(store[id])[1] > 0
    /\ store[id].winner # store[id].options[1]
    /\ Cardinality(Bottom(getScores(store[id]))) > 1

\* ------------------------------------------ claims: instant-runoff rounds

\* The first-choice count of option i once the options of `eliminated` are
\* out: the ballots that rank i above every other remaining option.
Firsts(poll, eliminated, i) ==
  Cardinality({v \in 1..Len(poll.votes) :
                 /\ i \notin eliminated
                 /\ \A j \in 1..Len(poll.options) :
                      (j \notin eliminated /\ j # i) => poll.votes[v][i] < poll.votes[v][j]})

\* The rounds the count can come to: the options eliminated before the round
\* and the round's number.
RECURSIVE RoundsReached(_, _, _)
RoundsReached(poll, eliminated, round) ==
  IF round >= Len(poll.options) - 1 THEN {}
  ELSE {[eliminated |-> eliminated, round |-> round]}
         \cup (IF \E i \in 1..Len(poll.options) :
                     2 * Firsts(poll, eliminated, i) > Len(poll.votes)
               THEN {}
               ELSE UNION {RoundsReached(poll, next, round + 1) :
                             next \in Eliminate(poll, eliminated)})

\* The stored ranked polls that hold ballots.
RankedPolls ==
  {store[id] : id \in {x \in PollIds : /\ store[x] # Null
                                       /\ store[x].votingMethod = "ranked"
                                       /\ store[x].votes # <<>>}}

\* C18: in ranked winner selection, when in some round a non-eliminated
\* option has a first-choice count above half the number of ballots, that
\* option is returned and no further round runs; an option that more than
\* half of the ballots rank 1 is the only winner endPoll can set.
C18_MajorityWins ==
  \A poll \in RankedPolls :
    /\ \A at \in RoundsReached(poll, {}, 0) :
         \A i \in 1..Len(poll.options) :
           2 * Firsts(poll, at.eliminated, i) > Len(poll.votes) =>
             RankedRuns(poll, at.eliminated, at.round) =
               {[winner |-> i, eliminated |-> at.eliminated,
                 rounds |-> at.round + 1, majority |-> TRUE]}
    /\ \A i \in 1..Len(poll.options) :
         2 * Cardinality({v \in 1..Len(poll.votes) : poll.votes[v][i] = One})
             > Len(poll.votes) =>
           /\ Winners(poll) = {poll.options[i]}
           /\ poll.ended => poll.winner = poll.options[i]

\* C18 witness: a ranked poll of three options was ended whose winner had no
\* majority in the first round and reached one in the second.
C18_Witness ==
  \E poll \in RankedPolls :
    /\ poll.ended
    /\ Len(poll.options) = 3
    /\ \E at \in RoundsReached(poll, {}, 0), i \in 1..3 :
         /\ at.round = 1
         /\ 2 * Firsts(poll, at.eliminated, i) > Len(poll.votes)
         /\ poll.winner = poll.options[i]

\* C19: ranked winner selection on a poll of n options with at least one
\* valid ballot ends within n-1 rounds with a winner; when no round reaches
\* a majority exactly one option is left non-eliminated and it is the
\* winner; the winner is never an eliminated option.
C19_RankedEndsWithOneLeft ==
  \A poll \in RankedPolls :
    LET n == Len(poll.options) IN
    /\ RankedRuns(poll, {}, 0) # {}
    /\ \A run \in RankedRuns(poll, {}, 0) :
         /\ run.rounds <= n - 1
         /\ run.winner \in 1..n
         /\ run.winner \notin run.eliminated
         /\ ~run.majority => {i \in 1..n : i \notin run.eliminated} = {run.winner}
    /\ poll.ended =>
         \E run \in RankedRuns(poll, {}, 0) : poll.winner = poll.options[run.winner]

\* C19 witness: a ranked poll of three options was ended after two rounds
\* without a majority, by the option left over.
C19_Witness ==
  \E poll \in RankedPolls :
    /\ poll.ended
    /\ Len(poll.options) = 3
    /\ \E run \in RankedRuns(poll, {}, 0) :
         /\ ~run.majority
         /\ run.rounds = 2
         /\ Cardinality(run.eliminated) = 2
         /\ poll.winner = poll.options[run.winner]

\* ------------------------------------------------ claims: order of ballots

\* The poll with its votes list in the order perm.
Shuffled(poll, perm) ==
  [poll EXCEPT !.votes = [v \in 1..Len(poll.votes) |-> poll.votes[perm[v]]]]

\* C20: scoring and winner selection depend only on the multiset of ballots:
\* for every stored poll of every method, any reordering of its votes list
\* leaves the getScores result and the set of winners endPoll can set as
\* they are; a closed poll's winner is one endPoll could set for any order.
C20_OrderIndependent ==
  \A id \in PollIds :
    store[id] # Null =>
      \A perm \in Permutations(1..Len(store[id].votes)) :
        /\ getScores(Shuffled(store[id], perm)) = getScores(store[id])
        /\ Winners(Shuffled(store[id], perm)) = Winners(store[id])
        /\ store[id].ended => store[id].winner \in Winners(Shuffled(store[id], perm))

\* ------------------------------------------------- claims: the poll query

\* The step is GET call c answering for the poll it read.
GETAnswers(c) ==
  /\ calls[c].op = "get" /\ calls[c].pc = "resume"
  /\ StepOf(c)
  /\ Deref(c) # Null

\* C21: the poll query returns the per-option scores only if the poll is
\* ended and hideScores is false, and scores = null otherwise; the winner it
\* returns is null whenever the poll is not ended.
C21_ScoresOnlyWhenEndedAndShown ==
  [][\A c \in Calls :
       GETAnswers(c) =>
         LET poll == Deref(c)
             resp == calls'[c].resp IN
         /\ resp.status = 200
         /\ (poll.ended /\ ~poll.hideScores) => resp.scores = getScores(poll)
         /\ ~(poll.ended /\ ~poll.hideScores) => resp.scores = Null
         /\ resp.winner = poll.winner
         /\ ~poll.ended => resp.winner = NullWinner]_vars

\* C21 witness: one query of an ended poll with ballots was answered without
\* scores, the poll hiding them, and with the winner.
C21_Witness ==
  \E c \in Calls :
    /\ calls[c].op = "get" /\ calls[c].pc = "done"
    /\ calls[c].resp.status = 200
    /\ calls[c].resp.ended /\ calls[c].resp.hideScores
    /\ calls[c].resp.voteCount > 0
    /\ calls[c].resp.scores = Null
    /\ calls[c].resp.winner # NullWinner

\* ------------------------------------------------------- claims: rounding

\* The exact sum of the numbers the ballots give option i, in 1 / Scale: the
\* values of a slider ballot, n - rank for a ranked one.
RECURSIVE ExactSumTo(_, _, _)
ExactSumTo(poll, i, k) ==
  IF k = 0 THEN 0
  ELSE ExactSumTo(poll, i, k - 1)
         + (IF poll.votingMethod = "ranked"
            THEN Len(poll.options) * One - poll.votes[k][i]
            ELSE poll.votes[k][i])

ExactSum(poll, i) == ExactSumTo(poll, i, Len(poll.votes))

\* sum / count rounded to a tenth, a mean halfway between two tenths going
\* to the one of larger absolute value; in 1 / Scale.
HalfAwayFromZero(sum, count) ==
  LET sign == IF sum < 0 THEN -1 ELSE 1
      tenths == (2 * 10 * sign * sum + Scale * count) \div (2 * Scale * count) IN
  sign * tenths * (Scale \div 10)

\* The stored polls that hold ballots.
PollsWithVotes ==
  {store[id] : id \in {x \in PollIds : store[x] # Null /\ store[x].votes # <<>>}}

\* C22: for slider and ranked polls, getScores gives each option the mean of
\* its numbers rounded to one decimal place, half away from zero: a mean
\* halfway between two tenths goes to the tenth of larger absolute value,
\* also when negative (a slider mean of -0.25 gives -0.3).
C22_RoundsHalfAwayFromZero ==
  \A poll \in PollsWithVotes :
    poll.votingMethod \in {"slider", "ranked"} =>
      \A i \in 1..Len(poll.options) :
        getScores(poll)[i] = HalfAwayFromZero(ExactSum(poll, i), Len(poll.votes))
\* C23: for a slider poll with at least one ballot, the winner endPoll sets
\* is an option whose exact, unrounded sum of ballot values is maximal over
\* the options: rounding to one decimal never makes an option of strictly
\* smaller exact sum win.
C23_WinnerHasMaxExactSum ==
  \A poll \in ClosedPolls :
    (poll.votingMethod = "slider" /\ poll.votes # <<>>) =>
      \E i \in 1..Len(poll.options) :
        /\ poll.winner = poll.options[i]
        /\ \A j \in 1..Len(poll.options) : ExactSum(poll, j) <= ExactSum(poll, i)

\* ------------------------------------------------------- claims: creation

\* C24: a create request whose votingMethod is not one of slider, ranked,
\* single, veto is rejected with no state change: it gets an error response
\* and no poll is created.
C24_InvalidMethodRejected ==
  [][\A c \in Calls :
       (/\ StepOf(c)
        /\ calls'[c].op = "create"
        /\ "votingMethod" \in DOMAIN calls'[c].body
        /\ calls'[c].body.votingMethod \notin {"slider", "ranked", "single", "veto"}) =>
         /\ store' = store
         /\ calls'[c].resp.status = 400]_vars

\* ---------------------------------------- claims: instant-runoff eliminations

\* The non-eliminated options of a round.
Alive(poll, eliminated) == {i \in 1..Len(poll.options) : i \notin eliminated}

\* The non-eliminated options at the minimum first-choice count of a round.
TiedAtMin(poll, eliminated) ==
  {i \in Alive(poll, eliminated) :
     \A j \in Alive(poll, eliminated) :
       Firsts(poll, eliminated, i) <= Firsts(poll, eliminated, j)}

\* The rounds the count can come to that end without a majority.
RoundsWithoutMajority(poll) ==
  {at \in RoundsReached(poll, {}, 0) :
     \A i \in Alive(poll, at.eliminated) :
       2 * Firsts(poll, at.eliminated, i) <= Len(poll.votes)}

\* C25: each ranked round that ends without a majority adds exactly one
\* option to the eliminated set; the option was not eliminated before and
\* its first-choice count is the minimum among the non-eliminated options;
\* every option tied at that minimum can be the one eliminated, and the
\* count goes on from each of these eliminations.
C25_EliminatesOneTiedAtMin ==
  \A poll \in RankedPolls :
    /\ \A at \in RoundsWithoutMajority(poll) :
         /\ TiedAtMin(poll, at.eliminated) # {}
         /\ Eliminate(poll, at.eliminated) =
              {at.eliminated \cup {e} : e \in TiedAtMin(poll, at.eliminated)}
         /\ \A next \in Eliminate(poll, at.eliminated) :
              Cardinality(next) = Cardinality(at.eliminated) + 1
         /\ RankedRuns(poll, at.eliminated, at.round) =
              UNION {RankedRuns(poll, at.eliminated \cup {e}, at.round + 1) :
                       e \in TiedAtMin(poll, at.eliminated)}
    /\ \A run \in RankedRuns(poll, {}, 0) :
         Cardinality(run.eliminated) = run.rounds - (IF run.majority THEN 1 ELSE 0)

\* C25 witness: a ranked poll of three options was ended after a round
\* without a majority in which two options were tied at the minimum, and
\* the count could go on without either of them.
C25_Witness ==
  \E poll \in RankedPolls :
    /\ poll.ended
    /\ Len(poll.options) = 3
    /\ \E at \in RoundsWithoutMajority(poll) :
         /\ Cardinality(TiedAtMin(poll, at.eliminated)) = 2
         /\ \A e \in TiedAtMin(poll, at.eliminated) :
              \E after \in RoundsReached(poll, {}, 0) \cup
                           {[eliminated |-> run.eliminated, round |-> run.rounds] :
                              run \in RankedRuns(poll, {}, 0)} :
                e \in after.eliminated /\ after.round = at.round + 1

\* ------------------------------------------- claims: deterministic selection

\* No tie arises in winner selection on the poll: one option holds the
\* extreme score (slider, single: the maximum; veto: the minimum); in a
\* ranked count, no round that eliminates an option has two non-eliminated
\* options at the minimum first-choice count.
Untied(poll) ==
  CASE poll.votingMethod \in {"slider", "single"} ->
         Cardinality(Top(getScores(poll))) = 1
    [] poll.votingMethod = "veto" -> Cardinality(Bottom(getScores(poll))) = 1
    [] poll.votingMethod = "ranked" ->
         \A at \in RoundsWithoutMajority(poll) :
           Cardinality(TiedAtMin(poll, at.eliminated)) = 1

\* The stored polls that hold ballots, of any method.
TalliedPolls ==
  {store[id] : id \in {x \in PollIds : store[x] # Null /\ store[x].votes # <<>>}}

\* C26: winner selection is deterministic when no tie arises: for a poll
\* with at least one ballot in which no tie arises, every run of endPoll on
\* the same votes sets the same winner (there is one winner endPoll can set,
\* and a closed poll has it); two winners are possible only with a tie.
C26_UntiedIsDeterministic ==
  \A poll \in TalliedPolls :
    LET winners == Winners(poll)
        untied == Untied(poll) IN
    /\ untied =>
         /\ Cardinality(winners) = 1
         /\ poll.ended => winners = {poll.winner}
    /\ Cardinality(winners) > 1 => ~untied

\* C26 witness: a ranked poll of three options was ended whose count ran two
\* rounds with no tie: the first eliminated an option, the second gave the
\* winner a majority.
C26_Witness ==
  \E poll \in TalliedPolls :
    /\ poll.ended
    /\ poll.votingMethod = "ranked"
    /\ Len(poll.options) = 3
    /\ Untied(poll)
    /\ RoundsWithoutMajority(poll) # {}
    /\ \E run \in RankedRuns(poll, {}, 0) :
         run.majority /\ run.rounds = 2 /\ poll.winner = poll.options[run.winner]

\* ------------------------------------------------- claims: read-only query

\* Call d is a query that was answered with the poll.
Answered(d) ==
  /\ calls[d].op = "get" /\ calls[d].pc = "done"
  /\ calls[d].resp.status = 200

RECURSIVE SumCounts(_, _)
SumCounts(counts, k) == IF k = 0 THEN 0 ELSE counts[k] + SumCounts(counts, k - 1)

\* C28: in ranked winner selection over valid ranked ballots no ballot is
\* exhausted: in every round the count can come to, every ballot gives its
\* first-choice vote to one non-eliminated option, so the first-choice
\* counts of the round sum to the number of ballots and the eliminated
\* options have count 0.
C28_NoBallotExhausted ==
  \A poll \in RankedPolls :
    LET n == Len(poll.options) IN
    \A at \in RoundsReached(poll, {}, 0) :
      LET counts == FirstChoiceCounts(poll, at.eliminated) IN
      /\ \A v \in 1..Len(poll.votes) :
           /\ ValidBallot("ranked", n, poll.votes[v])
           /\ BestIdx(poll.votes[v], n, at.eliminated) \in Alive(poll, at.eliminated)
      /\ SumCounts(counts, n) = Len(poll.votes)
      /\ \A e \in at.eliminated : counts[e] = 0
      /\ \A i \in 1..n : counts[i] = Firsts(poll, at.eliminated, i)

\* C28 witness: a ranked poll of three options was ended after a second
\* round in which a ballot whose first choice had been eliminated counted
\* for its next choice.
C28_Witness ==
  \E poll \in RankedPolls :
    /\ poll.ended
    /\ Len(poll.options) = 3
    /\ \E at \in RoundsReached(poll, {}, 0) :
         /\ at.round = 1
         /\ \E v \in 1..Len(poll.votes), e \in at.eliminated :
              /\ poll.votes[v][e] = One
              /\ FirstChoiceCounts(poll, at.eliminated)
                   [BestIdx(poll.votes[v], 3, at.eliminated)] > 0
              /\ poll.votes[v][BestIdx(poll.votes[v], 3, at.eliminated)] = 2 * One

\* --------------------------------------- claims: interleaved calls on a poll

\* C29: in every stored state with ended = true, the stored winner is a
\* possible result of winner selection applied to the votes list stored in
\* that same state (options[0] when that list is empty), also when addVote
\* and endPoll calls on the poll interleave between read and write.
C29_StoredWinnerFitsStoredVotes ==
  \A id \in PollIds :
    StoredEnded(id) =>
      /\ store[id].winner \in Winners(store[id])
      /\ store[id].votes = <<>> => store[id].winner = store[id].options[1]

\* C29 witness: on Redis an addVote and an endPoll overlapped on a poll that
\* held a ballot: both returned success, the stored poll is ended with the
\* one ballot it held before, and its winner is not the first option.
C29_Witness ==
  \E id \in PollIds, c \in Calls, d \in Calls :
    /\ redis
    /\ StoredEnded(id)
    /\ calls[c].op = "addVote" /\ calls[c].id = id /\ calls[c].ret = RetTrue
    /\ calls[d].op = "endPoll" /\ calls[d].id = id /\ calls[d].pc = "done"
    /\ calls[d].ret # Null
    /\ Len(store[id].votes) = 1
    /\ store[id].winner # store[id].options[1]

\* The addVote calls on poll id that returned true.
Accepted(id) ==
  {c \in Calls : calls[c].op = "addVote" /\ calls[c].id = id /\ calls[c].ret = RetTrue}

\* The endPoll calls on poll id that returned the closed poll.
EndPollSucceeded(id) ==
  {c \in Calls : /\ calls[c].op = "endPoll" /\ calls[c].id = id
                 /\ calls[c].pc = "done" /\ calls[c].ret # Null}

\* With the in-memory store: a poll is ended exactly when one endPoll call on
\* it succeeded, and no second one did; the stored votes are the ballots of
\* the addVote calls that returned true, one entry per call; no call waits
\* between its check and its store.
InMemoryConsistent ==
  \A id \in PollIds :
    /\ Cardinality(EndPollSucceeded(id)) = (IF StoredEnded(id) THEN 1 ELSE 0)
    /\ \A c \in Calls : calls[c].id = id => calls[c].pc # "save"
    /\ Accepted(id) # {} => store[id] # Null
    /\ store[id] # Null =>
         /\ Len(store[id].votes) = Cardinality(Accepted(id))
         /\ \A c \in Accepted(id) : calls[c].values \in Range(store[id].votes)
         /\ \A v \in 1..Len(store[id].votes) :
              \E c \in Accepted(id) : calls[c].values = store[id].votes[v]

\* C30: with the in-memory store addVote and endPoll do their ended check
\* and their change of the poll in one step after the await on getPoll, so
\* under every interleaving of calls exactly one endPoll succeeds (a resumed
\* endPoll on an existing poll leaves it ended, and one call returned it), no
\* accepted ballot is lost, and no ballot is appended after the poll ended.
C30_InMemoryCallsAtomic ==
  [][~redis =>
       /\ InMemoryConsistent'
       /\ \A id \in PollIds : StoredEnded(id) => store'[id] = store[id]
       /\ \A c \in Calls :
            (calls[c].op = "endPoll" /\ calls[c].pc = "resume" /\ StepOf(c)
               /\ Deref(c) # Null) =>
              /\ calls'[c].pc = "done"
              /\ store'[calls[c].id].ended
              /\ calls'[c].ret # Null <=> ~Deref(c).ended
       /\ \A c \in Calls :
            (calls[c].op = "addVote" /\ calls[c].pc = "resume" /\ StepOf(c)) =>
              /\ calls'[c].pc = "done"
              /\ calls'[c].ret = RetTrue =>
                   /\ ~Deref(c).ended
                   /\ store'[calls[c].id].votes = Append(Deref(c).votes, calls[c].values)]_vars

\* C30 witness: in memory two endPoll calls were made on one poll; one
\* returned the closed poll, the other returned null, and the poll is ended.
C30_Witness ==
  /\ ~redis
  /\ \E id \in PollIds, c \in Calls, d \in Calls :
       /\ c # d
       /\ calls[c].id = id /\ calls[d].id = id
       /\ calls[c].op = "endPoll" /\ calls[d].op = "endPoll"
       /\ calls[c].pc = "done" /\ calls[d].pc = "done"
       /\ calls[c].ret # Null /\ calls[d].ret = Null
       /\ StoredEnded(id)

====
